---- MODULE Spec2Model ----
(***************************************************************************)
(* Chat server of CS262-HW1: the account directory held by the server, the *)
(* per-connection request handler (wire_protocol/server.py, with the same  *)
(* store code in grpc_protocol/server.py and json_protocol/server.py) and   *)
(* the snapshot file accounts.json.                                        *)
(*                                                                         *)
(* Spec      one connection at a time; every action is one whole iteration *)
(*           of the handler loop (read request, run operation, save,       *)
(*           respond).                                                     *)
(* SpecConc  one thread per connection (Server.start); a step is one       *)
(*           statement of the handler that touches the directory, so the   *)
(*           threads interleave between statements.                        *)
(* SpecSend  the threads of SpecConc, each serving one SEND_MESSAGE.       *)
(* SpecCodec serialize and deserialize of protocol.py applied to bounded   *)
(*           envelopes and byte strings.                                   *)
(* SpecWire  the read path of the handler (lines 82-93) on the byte stream *)
(*           of one connection, whose peer writes frames.                  *)
(* SpecList  the message list of a READ_UNREAD, READ_ALL or COUNT_UNREAD   *)
(*           response: encoded by the server, decoded by the client.       *)
(* SpecCascade  the loop of DELETE_ACCOUNT over one message list, and the  *)
(*           filter of ChatService.DeleteAccount, on bounded lists.        *)
(* SpecParse Spec with requests whose payload has too few fields or a      *)
(*           count or index that is not a number.                          *)
(* SpecDelete  a client that lists its read messages and deletes one by    *)
(*           position, while other connections delete and read.            *)
(***************************************************************************)
EXTENDS Integers, Sequences, FiniteSets, TLC

VARIABLES
    accounts,         \* self.accounts: the directory, in insertion order
    file,             \* accounts.json: the snapshot last written
    lock,             \* self.lock: TRUE while some thread holds it
    connection_flag,  \* the handler loop of the current connection is running
    last,             \* history: the request the handler processed last
    before,           \* history: self.accounts when that request was read
    resp,             \* what package_send wrote for that request
    saved,            \* that iteration called save_accounts
    raised,           \* the exception that ended that iteration ("" if none)
    pc,               \* per thread: the statement it executes next
    frame,            \* per thread: the locals of handle_client
    nreq,             \* per thread: requests read so far
    accepted,         \* history: per account, messages answered SUCCESS by SEND_MESSAGE
    envelope,         \* protocol.py: the dictionary given to serialize
    encode_data,      \* protocol.py: the byte string serialize returned or recv delivered
    decod_data,       \* protocol.py: the dictionary deserialize returned
    codec_step,       \* protocol.py: which of the two functions ran last
    stream,           \* the bytes the peer has sent and the handler has not read
    peer_closed,      \* the peer has closed the connection
    written,          \* history: the envelopes the peer has framed, in order
    recovered,        \* history: the envelopes the handler has deserialized, in order
    wpc,              \* the recv the handler executes next, or how its loop ended
    msg_len,          \* the header bytes the handler read last
    msg_list,         \* the list of messages the server encodes
    list_info,        \* the 'info' of the response that carries the list
    client_list,      \* the list the client builds from that 'info'
    list_step,        \* which side of the exchange ran last
    user_messages,    \* a read or unread list before DELETE_ACCOUNT
    deleted_user,     \* the account DELETE_ACCOUNT deletes
    wire_result,      \* the list after the loop of the wire server
    grpc_result,      \* the list the gRPC service assigns
    cascade_step,     \* which of the two has run
    page_user,        \* client: self.username of the client that lists its messages
    page_messages,    \* client: the list read_messages returned, as the page shows it
    page_idx,         \* client: the idx of the button clicked
    page_removed,     \* history: the message that DELETE_MESSAGE removed, if any
    page_step         \* client: how far the page has got

svars == <<connection_flag, last, resp, saved, raised>>
cvars == <<pc, frame, nreq, accepted>>
codecvars == <<envelope, encode_data, decod_data, codec_step>>
wirevars == <<stream, peer_closed, written, recovered, wpc, msg_len>>
listvars == <<msg_list, list_info, client_list, list_step>>
cascadevars == <<user_messages, deleted_user, wire_result, grpc_result, cascade_step>>
pagevars == <<page_user, page_messages, page_idx, page_removed, page_step>>
uvars == <<codecvars, wirevars, listvars, cascadevars, pagevars>>
hvars == <<accounts, file, lock, before, svars, cvars>>
vars  == <<hvars, uvars>>

----------------------------------------------------------------------------
(* Bounds and input alphabets *)

MaxMsgs     == 2   \* messages held in the whole directory (Spec)
NumThreads  == 2   \* connection threads (SpecConc, SpecSend)
MaxRequests == 2   \* requests the threads of SpecConc read altogether

Users     == {"alice", "bob"}
Passwords == {"p", "q"}
Bodies    == {"m1"}
Versions  == {"1", "2"}
Counts    == {"-1", "0", "1", "2", "5"}
Queries   == {"", "b", "B"}
Unhandled == {"12"}   \* operation codes no branch of the handler tests for

----------------------------------------------------------------------------
(* Operation registry and protocol constants *)

VERSION == "1"

SUCCESS        == "00"
FAILURE        == "01"
SEND_MESSAGE   == "10"
READ_UNREAD    == "11"
COUNT_UNREAD   == "13"
LOGIN          == "14"
READ_ALL       == "15"
LIST_ACCOUNTS  == "16"
DELETE_MESSAGE == "17"
DELETE_ACCOUNT == "18"

----------------------------------------------------------------------------
(* Python values *)

Min(a, b) == IF a < b THEN a ELSE b
Max(a, b) == IF a > b THEN a ELSE b

\* int(s) for the decimal strings of the alphabet
PyInt(s) ==
    CASE s = "-1" -> -1
      [] s = "0"  -> 0
      [] s = "1"  -> 1
      [] s = "2"  -> 2
      [] s = "5"  -> 5

\* slice bounds with 0 counted from the end like a negative index
SliceBoundZeroFromEnd(n, k) == IF k <= 0 THEN Max(n + k, 0) ELSE Min(k, n)

\* the index a slice bound k denotes in a list of length n
SliceBound(n, k) == IF k < 0 THEN Max(n + k, 0) ELSE Min(k, n)

\* s[:k]
SliceTo(s, k) == SubSeq(s, 1, SliceBound(Len(s), k))

\* s[k:]
SliceFrom(s, k) == SubSeq(s, SliceBound(Len(s), k) + 1, Len(s))

\* the characters of the strings of the alphabets
Chars(s) ==
    CASE s = ""      -> <<>>
      [] s = "b"     -> <<"b">>
      [] s = "B"     -> <<"B">>
      [] s = "alice" -> <<"a", "l", "i", "c", "e">>
      [] s = "bob"   -> <<"b", "o", "b">>

\* what str.lower() does to the letters it changes
LowerOf ==
    [c \in {"A", "B", "C", "D", "E", "F", "G", "H", "I", "J", "K", "L", "M",
            "N", "O", "P", "Q", "R", "S", "T", "U", "V", "W", "X", "Y", "Z"} |->
        CASE c = "A" -> "a" [] c = "B" -> "b" [] c = "C" -> "c" [] c = "D" -> "d"
          [] c = "E" -> "e" [] c = "F" -> "f" [] c = "G" -> "g" [] c = "H" -> "h"
          [] c = "I" -> "i" [] c = "J" -> "j" [] c = "K" -> "k" [] c = "L" -> "l"
          [] c = "M" -> "m" [] c = "N" -> "n" [] c = "O" -> "o" [] c = "P" -> "p"
          [] c = "Q" -> "q" [] c = "R" -> "r" [] c = "S" -> "s" [] c = "T" -> "t"
          [] c = "U" -> "u" [] c = "V" -> "v" [] c = "W" -> "w" [] c = "X" -> "x"
          [] c = "Y" -> "y" [] c = "Z" -> "z"]

\* str.lower(), character by character
Lower(cs) ==
    [i \in 1..Len(cs) |-> IF cs[i] \in DOMAIN LowerOf THEN LowerOf[cs[i]] ELSE cs[i]]

\* q in s, for strings
Contains(q, cs) ==
    \E i \in 0..(Len(cs) - Len(q)) : SubSeq(cs, i + 1, i + Len(q)) = q

\* sep.join(items)
RECURSIVE Join(_, _)
Join(sep, items) ==
    IF Len(items) = 0 THEN ""
    ELSE IF Len(items) = 1 THEN items[1]
    ELSE items[1] \o sep \o Join(sep, Tail(items))

----------------------------------------------------------------------------
(* The directory: a dict keyed by username, in insertion order *)

Message(sender, body) == [from |-> sender, message |-> body]

\* line 111 with the password left out of the new account
NewAccountNoPassword(username, password) ==
    [username |-> username, password |-> "",
     read_messages |-> <<>>, unread_messages |-> <<>>]

NewAccount(username, password) ==
    [username |-> username, password |-> password,
     read_messages |-> <<>>, unread_messages |-> <<>>]

\* username in self.accounts
Has(accts, u) == \E i \in 1..Len(accts) : accts[i].username = u

Pos(accts, u) == CHOOSE i \in 1..Len(accts) : accts[i].username = u

\* self.accounts[username]
Get(accts, u) == accts[Pos(accts, u)]

\* self.accounts[username] = acct
SetItem(accts, u, acct) ==
    IF Has(accts, u) THEN [accts EXCEPT ![Pos(accts, u)] = acct]
    ELSE Append(accts, acct)

\* the append of line 124 applied to every account
AppendUnreadToAll(accts, u, msg) ==
    [i \in 1..Len(accts) |-> [accts[i] EXCEPT !.unread_messages = Append(@, msg)]]

\* self.accounts[recipient]['unread_messages'].append(msg)
AppendUnread(accts, u, msg) ==
    [accts EXCEPT ![Pos(accts, u)].unread_messages = Append(@, msg)]

\* line 142 as an insertion at the front of the read list
ExtendReadFront(accts, u, msgs) ==
    [accts EXCEPT ![Pos(accts, u)].read_messages = msgs \o @]

\* self.accounts[username]['read_messages'].extend(msgs)
ExtendRead(accts, u, msgs) ==
    [accts EXCEPT ![Pos(accts, u)].read_messages = @ \o msgs]

\* self.accounts[username]['unread_messages'] = msgs
SetUnread(accts, u, msgs) ==
    [accts EXCEPT ![Pos(accts, u)].unread_messages = msgs]

\* del s[i] counting positions from 1
DelAtOneBased(s, i) == SubSeq(s, 1, i - 1) \o SubSeq(s, i + 1, Len(s))

\* del s[i] for 0 <= i < len(s)
DelAt(s, i) == SubSeq(s, 1, i) \o SubSeq(s, i + 2, Len(s))

\* lines 194-198 with the index decremented only when nothing is deleted
RECURSIVE ReverseDeleteStuck(_, _, _, _)
ReverseDeleteStuck(cur, copy, i, username) ==
    IF i < 0 THEN cur
    ELSE LET at == i + Len(copy) - Len(cur)
         IN  ReverseDeleteStuck(
                 IF copy[i + 1].from = username /\ at < Len(cur) THEN DelAt(cur, at) ELSE cur,
                 copy, i - 1, username)

\* lines 194-198 and 199-203: the loop over the reversed copy of a list, from
\* the element at index i of the copy down to its first, deleting from the
\* list itself at the same index
RECURSIVE ReverseDelete(_, _, _, _)
ReverseDelete(cur, copy, i, username) ==
    IF i < 0 THEN cur
    ELSE ReverseDelete(IF copy[i + 1].from = username THEN DelAt(cur, i) ELSE cur,
                       copy, i - 1, username)

\* the loop that starts below the last element of the list
DeleteLoopSkipsLast(msgs, username) ==
    ReverseDelete(msgs, msgs, Len(msgs) - 2, username)

\* lines 194-198 (unread) and 199-203 (read) for one list: the index starts
\* at len - 1 and the loop runs over the whole reversed copy
DeleteLoop(msgs, username) ==
    ReverseDelete(msgs, msgs, Len(msgs) - 1, username)

\* ChatService.DeleteAccount: [msg for msg in ... if msg['sender'] != username]
ChatServiceFilter(msgs, username) ==
    SelectSeq(msgs, LAMBDA msg : msg.from # username)

\* lines 193-203: the loops over every account
Cascade(accts, username) ==
    [k \in 1..Len(accts) |->
        [accts[k] EXCEPT
            !.unread_messages = ReverseDelete(@, @, Len(@) - 1, username),
            !.read_messages   = ReverseDelete(@, @, Len(@) - 1, username)]]

\* del self.accounts[username]
DelItem(accts, u) == SelectSeq(accts, LAMBDA a : a.username # u)

RECURSIVE CountMsgs(_)
CountMsgs(accts) ==
    IF accts = <<>> THEN 0
    ELSE Len(accts[1].read_messages) + Len(accts[1].unread_messages)
         + CountMsgs(Tail(accts))

\* "\n\t\n".join(f"{msg['from']} {msg['message']}" for msg in msgs)
EncodeMessages(msgs) ==
    Join("\n\t\n", [i \in 1..Len(msgs) |-> msgs[i].from \o " " \o msgs[i].message])

----------------------------------------------------------------------------
(* protocol.py.  A str or bytes value is the sequence of its characters.   *)

MaxInfo == 2   \* characters of the 'info' of an envelope (SpecCodec)

CodecChars == {"1", "0", "a"}

SeqsUpTo(S, n) == UNION {[1..k -> S] : k \in 0..n}

\* s[lo:hi] for 0 <= lo <= hi
Slice(s, lo, hi) == SliceTo(SliceFrom(s, lo), hi - lo)

Envelope(v, op, info) == [version |-> v, operation |-> op, info |-> info]

NoEnvelope == Envelope(<<>>, <<>>, <<>>)

\* the envelopes of the docstrings: a one-character version, a two-character
\* operation code, any info
Envelopes ==
    {Envelope(<<v>>, op, i) :
        v \in CodecChars, op \in [1..2 -> CodecChars], i \in SeqsUpTo(CodecChars, MaxInfo)}

ByteStrings == SeqsUpTo(CodecChars, MaxInfo + 3)

serialize(data) == data.version \o data.operation \o data.info

\* deserialize taking data[1:2] as the operation
deserializeOneCharOperation(data) ==
    Envelope(<<data[1]>>, Slice(data, 1, 2), SliceFrom(data, 3))

\* lines 32-38, for a non-empty data (data[0] raises IndexError on '')
deserialize(data) ==
    Envelope(<<data[1]>>, Slice(data, 1, 3), SliceFrom(data, 3))

----------------------------------------------------------------------------
(* Framing: package_send and Client.send_recv write a 64-byte header, the  *)
(* length in decimal padded with spaces, then the serialized envelope.     *)

HEADER == 64

MaxFrames == 2   \* frames the peer writes on the connection (SpecWire)

DigitChars == <<"0", "1", "2", "3", "4", "5", "6", "7", "8", "9">>

\* str(n) for n >= 0
RECURSIVE Str(_)
Str(n) == IF n < 10 THEN <<DigitChars[n + 1]>>
          ELSE Str(n \div 10) \o <<DigitChars[(n % 10) + 1]>>

\* b" " * n
Spaces(n) == [i \in 1..n |-> " "]

\* lines 67-69: the header for a message of msg_len bytes
Header(n) == Str(n) \o Spaces(HEADER - Len(Str(n)))

\* str.strip() of the spaces at both ends
RECURSIVE Strip(_)
Strip(cs) ==
    IF cs = <<>> THEN cs
    ELSE IF Head(cs) = " " THEN Strip(Tail(cs))
    ELSE IF cs[Len(cs)] = " " THEN Strip(SubSeq(cs, 1, Len(cs) - 1))
    ELSE cs

IsNumber(cs) ==
    /\ cs # <<>>
    /\ \A i \in 1..Len(cs) : \E d \in 1..10 : DigitChars[d] = cs[i]

RECURSIVE Value(_)
Value(cs) ==
    IF cs = <<>> THEN 0
    ELSE 10 * Value(SubSeq(cs, 1, Len(cs) - 1))
         + (CHOOSE d \in 0..9 : DigitChars[d + 1] = cs[Len(cs)])

\* int(msg_len) of line 86: the number, or -1 where int raises ValueError
ParseInt(cs) == IF IsNumber(Strip(cs)) THEN Value(Strip(cs)) ELSE -1

\* the envelopes the peer frames
WireEnvelopes ==
    {Envelope(<<VERSION>>, <<"1", "5">>, i) : i \in {<<>>, <<"a">>}}

----------------------------------------------------------------------------
(* The message list of a response, as characters: the server joins         *)
(* "sender body" lines with "\n\t\n", the client splits them again.        *)

MaxList == 2   \* messages in the list (SpecList)
MaxBody == 2   \* characters of a message body (SpecList)

ListChars == {"a", " ", "\n", "\t"}

RecordDelimiter == <<"\n", "\t", "\n">>

\* sep in cs, at position i (from 1)
OccursAt(cs, sep, i) == SubSeq(cs, i, i + Len(sep) - 1) = sep

Occurrences(cs, sep) == {i \in 1..(Len(cs) - Len(sep) + 1) : OccursAt(cs, sep, i)}

\* the smallest element of a non-empty set of numbers
Least(S) == CHOOSE i \in S : \A j \in S : i <= j

\* cs.split(sep)
RECURSIVE Split(_, _)
Split(cs, sep) ==
    IF Occurrences(cs, sep) = {} THEN <<cs>>
    ELSE LET i == Least(Occurrences(cs, sep))
         IN  <<SubSeq(cs, 1, i - 1)>> \o Split(SubSeq(cs, i + Len(sep), Len(cs)), sep)

\* cs.split(sep, 1)
SplitOnce(cs, sep) ==
    IF Occurrences(cs, sep) = {} THEN <<cs>>
    ELSE LET i == Least(Occurrences(cs, sep))
         IN  <<SubSeq(cs, 1, i - 1), SubSeq(cs, i + Len(sep), Len(cs))>>

\* lines 146, 155, 162: "\n\t\n".join(f"{msg['from']} {msg['message']}" ...)
JoinMessages(msgs) ==
    IF msgs = <<>> THEN <<>>
    ELSE Join(RecordDelimiter,
              [i \in 1..Len(msgs) |-> msgs[i].from \o <<" ">> \o msgs[i].message])

\* client.py lines 99-105 (and 120-126, 141-147): the list the client
\* builds, or <<>> with ok FALSE when the unpacking of a line raises
\* ValueError
ClientDecode(text) ==
    IF text = <<>> THEN [ok |-> TRUE, list |-> <<>>]
    ELSE LET lines == Split(text, RecordDelimiter)
             parts == [i \in 1..Len(lines) |-> SplitOnce(lines[i], <<" ">>)]
         IN  IF \E i \in 1..Len(lines) : Len(parts[i]) < 2
             THEN [ok |-> FALSE, list |-> <<>>]
             ELSE [ok |-> TRUE,
                   list |-> [i \in 1..Len(lines) |->
                                [from |-> parts[i][1], message |-> parts[i][2]]]]

\* senders without a space, bodies without the record delimiter
ListSenders == SeqsUpTo({"a"}, 1)

ListBodies ==
    {b \in SeqsUpTo(ListChars, MaxBody) : Occurrences(b, RecordDelimiter) = {}}

ListMessages == {[from |-> s, message |-> b] : s \in ListSenders, b \in ListBodies}

----------------------------------------------------------------------------
(* Inputs of SpecCascade *)

MaxSeq == 4   \* messages in the list DELETE_ACCOUNT goes through (SpecCascade)

CascadeMessages == {Message(s, b) : s \in Users, b \in {"m1", "m2"}}

----------------------------------------------------------------------------
(* Requests and responses *)

Request(v, op, data) == [version |-> v, operation |-> op, data |-> data]

Response(op, info) == [version |-> VERSION, operation |-> op, info |-> info]

NoRequest  == [version |-> "", operation |-> "", data |-> <<>>]
NoResponse == [version |-> "", operation |-> "", info |-> ""]

Threads == 1..NumThreads

AllMessages == {Message(s, b) : s \in Users, b \in Bodies}

\* the locals of handle_client a thread keeps between statements
NoFrame ==
    [request |-> NoRequest, connection_flag |-> TRUE,
     unread_messages |-> <<>>, send_data |-> NoResponse]

----------------------------------------------------------------------------
(* The handler: one iteration of the loop of handle_client.  Each handler  *)
(* below is the dispatch branch of one operation; Iteration is the part    *)
(* every branch shares.                                                    *)

\* what one iteration leaves behind: the directory, whether it was saved,
\* the response written, the exception raised
Outcome(accts, sv, rsp, exc) ==
    [accounts |-> accts, saved |-> sv, resp |-> rsp, raised |-> exc]

\* LOGIN without the password comparison of line 104
LoginOutcomeNoCheck(accts, data) ==
    LET username == data[1]
        password == data[2]
    IN  IF Has(accts, username)
        THEN Outcome(accts, FALSE, Response(SUCCESS, ""), "")
        ELSE Outcome(SetItem(accts, username, NewAccount(username, password)),
                     TRUE, Response(SUCCESS, ""), "")

LoginOutcome(accts, data) ==
    LET username == data[1]
        password == data[2]
    IN  IF Has(accts, username)
        THEN IF Get(accts, username).password = password
             THEN Outcome(accts, FALSE, Response(SUCCESS, ""), "")
             ELSE Outcome(accts, FALSE, Response(FAILURE, ""), "")
        ELSE Outcome(SetItem(accts, username, NewAccount(username, password)),
                     TRUE, Response(SUCCESS, ""), "")

\* SEND_MESSAGE that also requires the sender to be an account
SendMessageOutcomeChecksSender(accts, data) ==
    LET sender    == data[1]
        recipient == data[2]
        body      == data[3]
    IN  IF Has(accts, recipient) /\ Has(accts, sender)
        THEN Outcome(AppendUnread(accts, recipient, Message(sender, body)),
                     TRUE, Response(SUCCESS, "Send message successfully."), "")
        ELSE Outcome(accts, FALSE,
                     Response(FAILURE, "Invalid recipient. Please enter a valid username."), "")

\* SEND_MESSAGE without the test of line 122: the append raises KeyError
SendMessageOutcomeNoTest(accts, data) ==
    LET sender    == data[1]
        recipient == data[2]
        body      == data[3]
    IN  IF Has(accts, recipient)
        THEN Outcome(AppendUnread(accts, recipient, Message(sender, body)),
                     TRUE, Response(SUCCESS, "Send message successfully."), "")
        ELSE Outcome(accts, FALSE, NoResponse, "KeyError")

SendMessageOutcome(accts, data) ==
    LET sender    == data[1]
        recipient == data[2]
        body      == data[3]
    IN  IF Has(accts, recipient)
        THEN Outcome(AppendUnread(accts, recipient, Message(sender, body)),
                     TRUE, Response(SUCCESS, "Send message successfully."), "")
        ELSE Outcome(accts, FALSE,
                     Response(FAILURE, "Invalid recipient. Please enter a valid username."), "")

\* READ_UNREAD that empties the unread list whatever per_page is
ReadUnreadOutcomeClearsUnread(accts, data) ==
    LET username == data[1]
        per_page == PyInt(data[2])
    IN  IF ~Has(accts, username)
        THEN Outcome(accts, FALSE, NoResponse, "KeyError")
        ELSE LET unread_messages == SliceTo(Get(accts, username).unread_messages, per_page)
                 extended == ExtendRead(accts, username, unread_messages)
                 moved == SetUnread(extended, username, <<>>)
             IN  Outcome(moved, TRUE,
                         Response(SUCCESS, EncodeMessages(unread_messages)), "")

ReadUnreadOutcome(accts, data) ==
    LET username == data[1]
        per_page == PyInt(data[2])
    IN  IF ~Has(accts, username)
        THEN Outcome(accts, FALSE, NoResponse, "KeyError")
        ELSE LET unread_messages == SliceTo(Get(accts, username).unread_messages, per_page)
                 extended == ExtendRead(accts, username, unread_messages)
                 moved == SetUnread(extended, username,
                              SliceFrom(Get(extended, username).unread_messages, per_page))
             IN  Outcome(moved, TRUE,
                         Response(SUCCESS, EncodeMessages(unread_messages)), "")

ReadAllOutcome(accts, data) ==
    LET username == data[1]
    IN  IF ~Has(accts, username)
        THEN Outcome(accts, FALSE, NoResponse, "KeyError")
        ELSE Outcome(accts, FALSE,
                     Response(SUCCESS, EncodeMessages(Get(accts, username).read_messages)), "")

\* COUNT_UNREAD that empties the unread list it reports
CountUnreadOutcomeDrains(accts, data) ==
    LET username == data[1]
    IN  IF ~Has(accts, username)
        THEN Outcome(accts, FALSE, NoResponse, "KeyError")
        ELSE Outcome(SetUnread(accts, username, <<>>), FALSE,
                     Response(SUCCESS, EncodeMessages(Get(accts, username).unread_messages)), "")

CountUnreadOutcome(accts, data) ==
    LET username == data[1]
    IN  IF ~Has(accts, username)
        THEN Outcome(accts, FALSE, NoResponse, "KeyError")
        ELSE Outcome(accts, FALSE,
                     Response(SUCCESS, EncodeMessages(Get(accts, username).unread_messages)), "")

\* list(self.accounts.keys())
Keys(accts) == [i \in 1..Len(accts) |-> accts[i].username]

\* ChatService.ListAccounts (and the "list" branch of the JSON server): the
\* query is lowercased before the containment test
ChatServiceListAccounts(accts, q) ==
    LET query == Lower(Chars(q))
        Matches(acc) == Contains(query, Lower(Chars(acc)))
    IN  SelectSeq(Keys(accts), Matches)

\* LIST_ACCOUNTS answering with its own operation code
ListAccountsOutcomeEchoesCode(accts, data) ==
    LET query == Chars(data[2])
        Matches(acc) == Contains(query, Lower(Chars(acc)))
        searched_accounts == SelectSeq(Keys(accts), Matches)
    IN  Outcome(accts, FALSE,
                [version |-> VERSION, operation |-> LIST_ACCOUNTS,
                 info |-> Join("\n", searched_accounts)], "")

ListAccountsOutcome(accts, data) ==
    LET query == Chars(data[2])
        Matches(acc) == Contains(query, Lower(Chars(acc)))
        searched_accounts == SelectSeq(Keys(accts), Matches)
    IN  Outcome(accts, FALSE, Response(SUCCESS, Join("\n", searched_accounts)), "")

DeleteMessageOutcome(accts, data) ==
    LET username == data[1]
        idx      == PyInt(data[2])
    IN  IF ~Has(accts, username)
        THEN Outcome(accts, FALSE, NoResponse, "KeyError")
        ELSE LET n == Len(Get(accts, username).read_messages)
             IN  IF idx >= n \/ idx < -n
                 THEN Outcome(accts, FALSE, NoResponse, "IndexError")
                 ELSE Outcome([accts EXCEPT ![Pos(accts, username)].read_messages =
                                   DelAt(@, IF idx < 0 THEN idx + n ELSE idx)],
                              TRUE, Response(SUCCESS, ""), "")

DeleteAccountOutcome(accts, data) ==
    LET username == data[1]
        cleaned  == Cascade(accts, username)
    IN  IF ~Has(accts, username)
        THEN Outcome(cleaned, FALSE, NoResponse, "KeyError")
        ELSE Outcome(DelItem(cleaned, username), TRUE, Response(SUCCESS, ""), "")

\* an operation code that no if/elif of lines 99-189 matches
UnhandledOutcome(accts, data) == Outcome(accts, FALSE, NoResponse, "")

\* the loop body without the version check of lines 90-93
IterationIgnoresVersion(request, out) ==
    /\ connection_flag
    /\ last' = request
    /\ before' = accounts
    /\ accounts' = out.accounts
    /\ file' = IF out.saved THEN out.accounts ELSE file
    /\ saved' = out.saved
    /\ resp' = out.resp
    /\ raised' = out.raised
    /\ connection_flag' = (out.raised = "")
    /\ UNCHANGED <<lock, cvars, uvars>>

\* the body of the while loop for a request that has been read: the version
\* check only clears connection_flag, the operation is dispatched after it
Iteration(request, out) ==
    /\ connection_flag
    /\ last' = request
    /\ before' = accounts
    /\ accounts' = out.accounts
    /\ file' = IF out.saved THEN out.accounts ELSE file
    /\ saved' = out.saved
    /\ resp' = out.resp
    /\ raised' = out.raised
    /\ connection_flag' = (out.raised = "" /\ request.version = VERSION)
    /\ UNCHANGED <<lock, cvars, uvars>>

\* LOGIN that stores the password it was given on every call
HandleLoginOverwrites ==
    \E v \in Versions, u \in Users, p \in Passwords :
        LET request == Request(v, LOGIN, <<u, p>>)
            out == LoginOutcome(accounts, request.data)
        IN  Iteration(request,
                [out EXCEPT !.accounts =
                    [i \in 1..Len(@) |->
                        IF @[i].username = u THEN [@[i] EXCEPT !.password = p] ELSE @[i]]])

HandleLogin ==
    \E v \in Versions, u \in Users, p \in Passwords :
        LET request == Request(v, LOGIN, <<u, p>>)
        IN  Iteration(request, LoginOutcome(accounts, request.data))

HandleSendMessage ==
    \E v \in Versions, s \in Users, r \in Users, b \in Bodies :
        LET request == Request(v, SEND_MESSAGE, <<s, r, b>>)
        IN  /\ CountMsgs(accounts) < MaxMsgs
            /\ Iteration(request, SendMessageOutcome(accounts, request.data))

HandleReadUnread ==
    \E v \in Versions, u \in Users, k \in Counts :
        LET request == Request(v, READ_UNREAD, <<u, k>>)
        IN  Iteration(request, ReadUnreadOutcome(accounts, request.data))

HandleReadAll ==
    \E v \in Versions, u \in Users :
        LET request == Request(v, READ_ALL, <<u>>)
        IN  Iteration(request, ReadAllOutcome(accounts, request.data))

HandleCountUnread ==
    \E v \in Versions, u \in Users :
        LET request == Request(v, COUNT_UNREAD, <<u>>)
        IN  Iteration(request, CountUnreadOutcome(accounts, request.data))

\* the first field of the payload is not read by the branch
HandleListAccounts ==
    \E v \in Versions, q \in Queries :
        LET request == Request(v, LIST_ACCOUNTS, <<"alice", q>>)
        IN  Iteration(request, ListAccountsOutcome(accounts, request.data))

HandleDeleteMessage ==
    \E v \in Versions, u \in Users, k \in Counts :
        LET request == Request(v, DELETE_MESSAGE, <<u, k>>)
        IN  Iteration(request, DeleteMessageOutcome(accounts, request.data))

HandleDeleteAccount ==
    \E v \in Versions, u \in Users :
        LET request == Request(v, DELETE_ACCOUNT, <<u>>)
        IN  Iteration(request, DeleteAccountOutcome(accounts, request.data))

HandleUnhandled ==
    \E v \in Versions, op \in Unhandled :
        LET request == Request(v, op, <<"alice">>)
        IN  Iteration(request, UnhandledOutcome(accounts, request.data))

\* Server.start: the next connection gets a fresh handler
Accept ==
    /\ ~connection_flag
    /\ connection_flag' = TRUE
    /\ last' = NoRequest
    /\ before' = accounts
    /\ resp' = NoResponse
    /\ saved' = FALSE
    /\ raised' = ""
    /\ UNCHANGED <<accounts, file, lock, uvars, cvars>>

\* Server.__init__ for every thread-level variable: no handler has started
InitThreads ==
    /\ pc = [t \in Threads |-> "recv"]
    /\ frame = [t \in Threads |-> NoFrame]
    /\ nreq = [t \in Threads |-> 0]
    /\ accepted = [u \in Users |-> [m \in AllMessages |-> 0]]

\* Server.__init__ for the connection-level variables
InitHandler ==
    /\ lock = FALSE
    /\ connection_flag = TRUE
    /\ last = NoRequest
    /\ resp = NoResponse
    /\ saved = FALSE
    /\ raised = ""

\* neither function of protocol.py has been called
IdleCodec ==
    /\ envelope = NoEnvelope
    /\ encode_data = <<>>
    /\ decod_data = NoEnvelope
    /\ codec_step = "idle"

\* no connection carries bytes
IdleWire ==
    /\ stream = <<>>
    /\ peer_closed = FALSE
    /\ written = <<>>
    /\ recovered = <<>>
    /\ wpc = "header"
    /\ msg_len = <<>>

\* no message list is in transit
IdleList ==
    /\ msg_list = <<>>
    /\ list_info = <<>>
    /\ client_list = <<>>
    /\ list_step = "idle"

\* no DELETE_ACCOUNT is studied
IdleCascade ==
    /\ user_messages = <<>>
    /\ deleted_user = ""
    /\ wire_result = <<>>
    /\ grpc_result = <<>>
    /\ cascade_step = "idle"

\* no client shows a page of read messages
IdlePage ==
    /\ page_user = ""
    /\ page_messages = <<>>
    /\ page_idx = 0
    /\ page_removed = <<>>
    /\ page_step = "idle"

\* no accounts.json: load_accounts returns {}
Init ==
    /\ accounts = <<>>
    /\ file = <<>>
    /\ before = <<>>
    /\ InitHandler
    /\ InitThreads
    /\ IdleCodec
    /\ IdleWire
    /\ IdleList
    /\ IdleCascade
    /\ IdlePage

Next ==
    \/ HandleLogin
    \/ HandleSendMessage
    \/ HandleReadUnread
    \/ HandleReadAll
    \/ HandleCountUnread
    \/ HandleListAccounts
    \/ HandleDeleteMessage
    \/ HandleDeleteAccount
    \/ HandleUnhandled
    \/ Accept

Spec == Init /\ [][Next]_vars

----------------------------------------------------------------------------
(* Payload parsing.  Every branch of handle_client splits 'info' on "\n"   *)
(* and picks its fields by position (data[0], data[1], data[2]) and, for   *)
(* READ_UNREAD and DELETE_MESSAGE, calls int(data[1]), before its first    *)
(* access to self.accounts.  A payload with fewer fields raises IndexError *)
(* there, a count or index that int() rejects raises ValueError; neither   *)
(* is caught, so the handler thread ends.                                  *)

\* strings int() raises ValueError for
NonDecimal == {"x", ""}

\* the exception the parsing statements of the branch raise ("" if none)
ParseError(op, data) ==
    CASE op \in {LOGIN, LIST_ACCOUNTS} ->
            IF Len(data) < 2 THEN "IndexError" ELSE ""
      [] op = SEND_MESSAGE ->
            IF Len(data) < 3 THEN "IndexError" ELSE ""
      [] op \in {READ_UNREAD, DELETE_MESSAGE} ->
            IF Len(data) < 2 THEN "IndexError"
            ELSE IF data[2] \in NonDecimal THEN "ValueError" ELSE ""
      [] OTHER -> ""

\* the branch of an operation once its payload has been parsed
Operation(accts, op, data) ==
    CASE op = LOGIN          -> LoginOutcome(accts, data)
      [] op = SEND_MESSAGE   -> SendMessageOutcome(accts, data)
      [] op = READ_UNREAD    -> ReadUnreadOutcome(accts, data)
      [] op = LIST_ACCOUNTS  -> ListAccountsOutcome(accts, data)
      [] op = DELETE_MESSAGE -> DeleteMessageOutcome(accts, data)

\* LOGIN that takes a missing password to be the empty one
DispatchLenientLogin(accts, op, data) ==
    IF op = LOGIN /\ Len(data) = 1
    THEN LoginOutcome(accts, <<data[1], "">>)
    ELSE IF ParseError(op, data) # ""
         THEN Outcome(accts, FALSE, NoResponse, ParseError(op, data))
         ELSE Operation(accts, op, data)

\* lines 99-186: parse the payload, then run the branch
Dispatch(accts, op, data) ==
    IF ParseError(op, data) # ""
    THEN Outcome(accts, FALSE, NoResponse, ParseError(op, data))
    ELSE Operation(accts, op, data)

\* payloads with too few fields, or with a count or index that is no number
MalformedPayloads(op) ==
    {<<u>> : u \in Users \cup {""}}
    \cup (IF op = SEND_MESSAGE THEN {<<s, r>> : s \in Users, r \in Users} ELSE {})
    \cup (IF op \in {READ_UNREAD, DELETE_MESSAGE}
          THEN {<<u, k>> : u \in Users, k \in NonDecimal}
          ELSE {})

HandleMalformed ==
    \E v \in Versions,
       op \in {LOGIN, SEND_MESSAGE, READ_UNREAD, LIST_ACCOUNTS, DELETE_MESSAGE} :
        \E data \in MalformedPayloads(op) :
            Iteration(Request(v, op, data), Dispatch(accounts, op, data))

\* the handler of Spec, fed malformed payloads as well
NextParse ==
    \/ Next
    \/ HandleMalformed

SpecParse == Init /\ [][NextParse]_vars

----------------------------------------------------------------------------
(* The page of read messages of the client (client.py, lines 110-126,      *)
(* 188-204, 443-472).  The page is built from the list READ_ALL returned;  *)
(* each button sends DELETE_MESSAGE with the position its message had in   *)
(* that list.  Between the two requests the handlers of other connections  *)
(* run whole iterations on the same directory.  The messages here hold no  *)
(* "\n\t\n", so the client decodes the list the server encoded.            *)

MaxPage == 2   \* read messages the account starts with (SpecDelete)

\* str(idx) of line 200
IndexString(i) ==
    CASE i = 0 -> "0"
      [] i = 1 -> "1"
      [] i = 2 -> "2"

\* lines 464-472: messages = self.client.read_messages(), one button each
ClientReadAll ==
    \E u \in Users :
        /\ page_step = "idle"
        /\ Has(accounts, u)
        /\ page_user' = u
        /\ page_messages' = Get(accounts, u).read_messages
        /\ page_step' = "listed"
        /\ UNCHANGED <<hvars, codecvars, wirevars, listvars, cascadevars, page_idx, page_removed>>

\* lines 497-498 and 200-201: the button of position idx is clicked; the
\* handler of the client's connection runs DELETE_MESSAGE (lines 178-186)
ClientDeleteMessage ==
    \E i \in 0..(Len(page_messages) - 1) :
        LET request == Request(VERSION, DELETE_MESSAGE, <<page_user, IndexString(i)>>)
            out     == DeleteMessageOutcome(accounts, request.data)
        IN  /\ page_step = "listed"
            /\ page_idx' = i
            /\ page_removed' = IF out.raised = ""
                               THEN <<Get(accounts, page_user).read_messages[i + 1]>>
                               ELSE <<>>
            /\ page_step' = "deleted"
            /\ last' = request
            /\ before' = accounts
            /\ accounts' = out.accounts
            /\ file' = IF out.saved THEN out.accounts ELSE file
            /\ saved' = out.saved
            /\ resp' = out.resp
            /\ raised' = out.raised
            /\ UNCHANGED <<lock, connection_flag, cvars, codecvars, wirevars, listvars,
                           cascadevars, page_user, page_messages>>

\* accounts.json with two accounts, one of them holding read messages
PageDirectories ==
    {<<[username |-> "alice", password |-> "p", read_messages |-> rm, unread_messages |-> um],
       [username |-> "bob", password |-> "p", read_messages |-> <<>>, unread_messages |-> <<>>]>> :
        rm \in SeqsUpTo(AllMessages, MaxPage) \ {<<>>},
        um \in SeqsUpTo(AllMessages, 1)}

InitDelete ==
    /\ accounts \in PageDirectories
    /\ file = accounts
    /\ before = accounts
    /\ InitHandler
    /\ InitThreads
    /\ IdleCodec
    /\ IdleWire
    /\ IdleList
    /\ IdleCascade
    /\ IdlePage

NextDelete ==
    \/ ClientReadAll
    \/ ClientDeleteMessage
    \/ HandleDeleteMessage
    \/ HandleDeleteAccount
    \/ HandleReadUnread
    \/ Accept

SpecDelete == InitDelete /\ [][NextDelete]_vars

----------------------------------------------------------------------------
(* Threads.  Server.start runs handle_client in one thread per connection, *)
(* all on the same self.accounts; self.lock is created by __init__ and     *)
(* never acquired.  A step is one statement of the handler that reads or   *)
(* writes the directory; an uncaught exception ends the thread.            *)

Goto(t, label) == pc' = [pc EXCEPT ![t] = label]

\* first statement of the dispatch branch of an operation
Branch(op) ==
    CASE op = LOGIN        -> "login"
      [] op = SEND_MESSAGE -> "send"
      [] op = READ_UNREAD  -> "slice"

\* lines 83-95: read a request, check the version, pick the branch
Recv(t, request) ==
    /\ pc[t] = "recv"
    /\ frame' = [frame EXCEPT ![t] =
                    [NoFrame EXCEPT !.request = request,
                                    !.connection_flag = (request.version = VERSION)]]
    /\ nreq' = [nreq EXCEPT ![t] = @ + 1]
    /\ Goto(t, Branch(request.operation))
    /\ UNCHANGED <<accounts, file, lock, uvars, before, svars, accepted>>

RecvLogin(t) ==
    \E u \in Users, p \in Passwords : Recv(t, Request(VERSION, LOGIN, <<u, p>>))

RecvSendMessage(t) ==
    \E s \in Users, r \in Users, b \in Bodies :
        Recv(t, Request(VERSION, SEND_MESSAGE, <<s, r, b>>))

RecvReadUnread(t) ==
    \E u \in Users, k \in Counts : Recv(t, Request(VERSION, READ_UNREAD, <<u, k>>))

\* line 103: if username in self.accounts
LoginTest(t) ==
    /\ pc[t] = "login"
    /\ Goto(t, IF Has(accounts, frame[t].request.data[1]) THEN "password" ELSE "create")
    /\ UNCHANGED <<accounts, file, lock, uvars, before, svars, frame, nreq, accepted>>

\* lines 104-109: compare the stored password
LoginPassword(t) ==
    LET username == frame[t].request.data[1]
        password == frame[t].request.data[2]
    IN  /\ pc[t] = "password"
        /\ IF ~Has(accounts, username)
           THEN Goto(t, "dead") /\ UNCHANGED frame
           ELSE /\ frame' = [frame EXCEPT ![t].send_data =
                                IF Get(accounts, username).password = password
                                THEN Response(SUCCESS, "")
                                ELSE Response(FAILURE, "")]
                /\ Goto(t, "respond")
        /\ UNCHANGED <<accounts, file, lock, uvars, before, svars, nreq, accepted>>

\* line 111: self.accounts[username] = {...}
LoginCreate(t) ==
    LET username == frame[t].request.data[1]
        password == frame[t].request.data[2]
    IN  /\ pc[t] = "create"
        /\ accounts' = SetItem(accounts, username, NewAccount(username, password))
        /\ frame' = [frame EXCEPT ![t].send_data = Response(SUCCESS, "")]
        /\ Goto(t, "save")
        /\ UNCHANGED <<file, lock, uvars, before, svars, nreq, accepted>>

\* line 122: if recipient in self.accounts (else lines 130-131)
SendTest(t) ==
    /\ pc[t] = "send"
    /\ IF Has(accounts, frame[t].request.data[2])
       THEN Goto(t, "append") /\ UNCHANGED frame
       ELSE /\ frame' = [frame EXCEPT ![t].send_data =
                    Response(FAILURE, "Invalid recipient. Please enter a valid username.")]
            /\ Goto(t, "respond")
    /\ UNCHANGED <<accounts, file, lock, uvars, before, svars, nreq, accepted>>

\* line 124 as a write of a list built from the list the server started with
SendAppendStale(t) ==
    LET sender    == frame[t].request.data[1]
        recipient == frame[t].request.data[2]
        body      == frame[t].request.data[3]
    IN  /\ pc[t] = "append"
        /\ accounts' = SetUnread(accounts, recipient,
                            Append(Get(before, recipient).unread_messages, Message(sender, body)))
        /\ frame' = [frame EXCEPT ![t].send_data =
                        Response(SUCCESS, "Send message successfully.")]
        /\ Goto(t, "save")
        /\ UNCHANGED <<file, lock, uvars, before, svars, nreq, accepted>>

\* line 124: self.accounts[recipient]['unread_messages'].append(...)
SendAppend(t) ==
    LET sender    == frame[t].request.data[1]
        recipient == frame[t].request.data[2]
        body      == frame[t].request.data[3]
    IN  /\ pc[t] = "append"
        /\ IF ~Has(accounts, recipient)
           THEN Goto(t, "dead") /\ UNCHANGED <<accounts, frame>>
           ELSE /\ accounts' = AppendUnread(accounts, recipient, Message(sender, body))
                /\ frame' = [frame EXCEPT ![t].send_data =
                                Response(SUCCESS, "Send message successfully.")]
                /\ Goto(t, "save")
        /\ UNCHANGED <<file, lock, uvars, before, svars, nreq, accepted>>

\* line 139: unread_messages = self.accounts[username]['unread_messages'][:per_page]
ReadSlice(t) ==
    LET username == frame[t].request.data[1]
        per_page == PyInt(frame[t].request.data[2])
    IN  /\ pc[t] = "slice"
        /\ IF ~Has(accounts, username)
           THEN Goto(t, "dead") /\ UNCHANGED frame
           ELSE /\ frame' = [frame EXCEPT ![t].unread_messages =
                                SliceTo(Get(accounts, username).unread_messages, per_page)]
                /\ Goto(t, "extend")
        /\ UNCHANGED <<accounts, file, lock, uvars, before, svars, nreq, accepted>>

\* line 142: self.accounts[username]['read_messages'].extend(unread_messages)
ReadExtend(t) ==
    LET username == frame[t].request.data[1]
    IN  /\ pc[t] = "extend"
        /\ IF ~Has(accounts, username)
           THEN Goto(t, "dead") /\ UNCHANGED accounts
           ELSE /\ accounts' = ExtendRead(accounts, username, frame[t].unread_messages)
                /\ Goto(t, "store")
        /\ UNCHANGED <<file, lock, uvars, before, svars, frame, nreq, accepted>>

\* line 143: self.accounts[username]['unread_messages'] = ...[per_page:]
ReadStore(t) ==
    LET username == frame[t].request.data[1]
        per_page == PyInt(frame[t].request.data[2])
    IN  /\ pc[t] = "store"
        /\ IF ~Has(accounts, username)
           THEN Goto(t, "dead") /\ UNCHANGED <<accounts, frame>>
           ELSE /\ accounts' = SetUnread(accounts, username,
                                   SliceFrom(Get(accounts, username).unread_messages, per_page))
                /\ frame' = [frame EXCEPT ![t].send_data =
                                Response(SUCCESS, EncodeMessages(frame[t].unread_messages))]
                /\ Goto(t, "save")
        /\ UNCHANGED <<file, lock, uvars, before, svars, nreq, accepted>>

\* lines 112, 125, 144: self.save_accounts(self.accounts); the dump is taken
\* as one read of the directory
Save(t) ==
    /\ pc[t] = "save"
    /\ file' = accounts
    /\ Goto(t, "respond")
    /\ UNCHANGED <<accounts, lock, uvars, before, svars, frame, nreq, accepted>>

\* package_send, then the loop test of line 82
Respond(t) ==
    LET request == frame[t].request
    IN  /\ pc[t] = "respond"
        /\ accepted' =
             IF request.operation = SEND_MESSAGE /\ frame[t].send_data.operation = SUCCESS
             THEN [accepted EXCEPT ![request.data[2]][Message(request.data[1], request.data[3])] = @ + 1]
             ELSE accepted
        /\ Goto(t, IF frame[t].connection_flag THEN "recv" ELSE "dead")
        /\ UNCHANGED <<accounts, file, lock, uvars, before, svars, frame, nreq>>

\* accounts.json as load_accounts finds it when the server starts
StartUnread ==
    {<<>>, <<Message("alice", "m1")>>, <<Message("alice", "m1"), Message("bob", "m1")>>}

StartDirectories ==
    {<<>>} \cup
    {<<[username |-> u, password |-> "p", read_messages |-> <<>>, unread_messages |-> um]>> :
        u \in Users, um \in StartUnread}

InitConc ==
    /\ accounts \in StartDirectories
    /\ file = accounts
    /\ before = accounts
    /\ InitHandler
    /\ InitThreads
    /\ IdleCodec
    /\ IdleWire
    /\ IdleList
    /\ IdleCascade
    /\ IdlePage

RECURSIVE SumTo(_, _)
SumTo(f, n) == IF n = 0 THEN 0 ELSE f[n] + SumTo(f, n - 1)

\* requests read by all threads
Served == SumTo(nreq, NumThreads)

NextConc ==
    \E t \in Threads :
        \/ (Served < MaxRequests /\ RecvLogin(t))
        \/ (Served < MaxRequests /\ RecvSendMessage(t))
        \/ (Served < MaxRequests /\ RecvReadUnread(t))
        \/ LoginTest(t)
        \/ LoginPassword(t)
        \/ LoginCreate(t)
        \/ SendTest(t)
        \/ SendAppend(t)
        \/ ReadSlice(t)
        \/ ReadExtend(t)
        \/ ReadStore(t)
        \/ Save(t)
        \/ Respond(t)

SpecConc == InitConc /\ [][NextConc]_vars

\* every thread serves exactly one SEND_MESSAGE
NextSend ==
    \E t \in Threads :
        \/ (nreq[t] = 0 /\ RecvSendMessage(t))
        \/ SendTest(t)
        \/ SendAppend(t)
        \/ Save(t)
        \/ Respond(t)

SpecSend == InitConc /\ [][NextSend]_vars

----------------------------------------------------------------------------
(* Claims about concurrent connections, checked under SpecSend and         *)
(* SpecConc.  before is the directory the server started with.             *)

\* C1: once every thread has served its one SendMessage, each account's
\* unread sequence is the one the server started with followed by exactly
\* one message per thread that sent to that account: no send is lost or
\* duplicated, under any interleaving.
C1_NoSendLost ==
    (\A t \in Threads : nreq[t] = 1 /\ pc[t] = "recv") =>
        /\ Len(accounts) = Len(before)
        /\ \A i \in 1..Len(before) :
            LET senders == {t \in Threads : frame[t].request.data[2] = before[i].username}
                old == before[i].unread_messages
                new == accounts[i].unread_messages
            IN  /\ accounts[i].username = before[i].username
                /\ Len(new) = Len(old) + Cardinality(senders)
                /\ SubSeq(new, 1, Len(old)) = old
                /\ \A t \in senders :
                     \E j \in (Len(old) + 1)..Len(new) :
                        new[j] = [from |-> frame[t].request.data[1],
                                  message |-> frame[t].request.data[3]]

\* all threads have sent to the same account, which held one unread message
C1_Witness ==
    /\ \A t \in Threads : nreq[t] = 1 /\ pc[t] = "recv"
    /\ \A t \in Threads : frame[t].request.data[2] = frame[1].request.data[2]
    /\ \A t \in Threads : frame[t].send_data.operation = SUCCESS
    /\ Len(before) = 1
    /\ Len(before[1].unread_messages) = 1
    /\ Len(accounts[1].unread_messages) = 1 + NumThreads

\* C2: in every reachable state at most one connection thread is inside an
\* operation on the account directory (between its first access to the
\* directory and the end of its snapshot write).
C2_OneThreadInStore ==
    Cardinality({t \in Threads :
        pc[t] \in {"password", "create", "append", "extend", "store", "save"}}) <= 1

\* C3: when the only two requests served are a SendMessage to account u
\* answered SUCCESS and a ReadUnread on u, and both are complete, u holds the
\* sent message in its unread or its read sequence (one occurrence more than
\* the server started with).
C3_SendNotLostByRead ==
    \A s \in Threads, r \in Threads :
        ( /\ s # r
          /\ Served = 2
          /\ nreq[s] = 1 /\ pc[s] = "recv"
          /\ nreq[r] = 1 /\ pc[r] = "recv"
          /\ frame[s].request.operation = SEND_MESSAGE
          /\ frame[s].send_data.operation = SUCCESS
          /\ frame[r].request.operation = READ_UNREAD
          /\ frame[r].request.data[1] = frame[s].request.data[2] ) =>
        LET u   == frame[s].request.data[2]
            m   == [from |-> frame[s].request.data[1], message |-> frame[s].request.data[3]]
            old == Get(before, u).unread_messages \o Get(before, u).read_messages
            new == Get(accounts, u).unread_messages \o Get(accounts, u).read_messages
        IN  Cardinality({i \in 1..Len(new) : new[i] = m})
                >= Cardinality({i \in 1..Len(old) : old[i] = m}) + 1

\* C4: whenever no operation is in progress, each account holds every
\* message accepted for it (those it started with and those answered
\* SUCCESS since) exactly once across its unread and read sequences.
C4_MessageInExactlyOneSequence ==
    (\A t \in Threads : pc[t] \in {"recv", "dead"}) =>
        \A i \in 1..Len(accounts) : \A m \in AllMessages :
            LET u   == accounts[i].username
                old == IF Has(before, u)
                       THEN Get(before, u).unread_messages \o Get(before, u).read_messages
                       ELSE <<>>
                new == accounts[i].unread_messages \o accounts[i].read_messages
            IN  Cardinality({j \in 1..Len(new) : new[j] = m})
                    = Cardinality({j \in 1..Len(old) : old[j] = m}) + accepted[u][m]

----------------------------------------------------------------------------
(* Claims about one handler iteration, checked under Spec.  last is the    *)
(* request of the iteration that led to the state, before is the directory *)
(* it started from.                                                        *)

\* C5: Login with a username that is not in the directory adds exactly that
\* account, with the given credential and empty read and unread sequences,
\* after the accounts that were there, which are unchanged, and answers
\* SUCCESS.
C5_LoginCreatesAccount ==
    (last.operation = LOGIN /\ ~Has(before, last.data[1])) =>
        /\ Len(accounts) = Len(before) + 1
        /\ SubSeq(accounts, 1, Len(before)) = before
        /\ accounts[Len(accounts)].username = last.data[1]
        /\ accounts[Len(accounts)].password = last.data[2]
        /\ accounts[Len(accounts)].read_messages = <<>>
        /\ accounts[Len(accounts)].unread_messages = <<>>
        /\ resp.operation = SUCCESS
        /\ raised = ""

\* a Login has just created a second account next to an existing one
C5_Witness ==
    /\ last.operation = LOGIN
    /\ Len(before) = 1
    /\ ~Has(before, last.data[1])
    /\ Len(accounts) = 2
    /\ Has(accounts, last.data[1])
    /\ resp.operation = SUCCESS

\* C6: Login on a username that exists never changes the directory; it
\* answers SUCCESS exactly when the credential equals the stored one and
\* FAILURE otherwise, and the directory holds one account per username.
C6_LoginExistingUnchanged ==
    (last.operation = LOGIN /\ Has(before, last.data[1])) =>
        /\ accounts = before
        /\ ~saved
        /\ resp.operation \in {SUCCESS, FAILURE}
        /\ (resp.operation = SUCCESS) <=> (Get(before, last.data[1]).password = last.data[2])
        /\ \A i, j \in 1..Len(accounts) :
               accounts[i].username = accounts[j].username => i = j

\* a Login with the wrong credential on an account that holds messages
C6_Witness ==
    /\ last.operation = LOGIN
    /\ Has(before, last.data[1])
    /\ Get(before, last.data[1]).password # last.data[2]
    /\ Get(before, last.data[1]).unread_messages # <<>>
    /\ resp.operation = FAILURE
    /\ accounts = before

\* C7: SendMessage answers SUCCESS exactly when the recipient is in the
\* directory, whether or not the sender is; on SUCCESS {sender, body} is the
\* new last element of the recipient's unread sequence and nothing else in
\* the directory differs.
C7_SendMessageAppends ==
    (last.operation = SEND_MESSAGE) =>
        LET sender    == last.data[1]
            recipient == last.data[2]
            body      == last.data[3]
        IN  /\ (resp.operation = SUCCESS) <=> Has(before, recipient)
            /\ (resp.operation = SUCCESS) =>
                   /\ Len(accounts) = Len(before)
                   /\ \A i \in 1..Len(before) :
                        /\ accounts[i].username = before[i].username
                        /\ accounts[i].password = before[i].password
                        /\ accounts[i].read_messages = before[i].read_messages
                        /\ accounts[i].unread_messages =
                             IF before[i].username = recipient
                             THEN before[i].unread_messages \o <<[from |-> sender, message |-> body]>>
                             ELSE before[i].unread_messages

\* a message from a sender that has no account was accepted behind an
\* earlier unread message
C7_Witness ==
    /\ last.operation = SEND_MESSAGE
    /\ resp.operation = SUCCESS
    /\ ~Has(before, last.data[1])
    /\ Len(Get(before, last.data[2]).unread_messages) = 1
    /\ Len(Get(accounts, last.data[2]).unread_messages) = 2

\* C8: SendMessage to a recipient that is not in the directory answers
\* FAILURE with the invalid-recipient message, leaves the directory
\* unchanged, writes no snapshot, and (the request carrying the server's
\* version) the handler loop goes on to the next request.
C8_InvalidRecipient ==
    (last.operation = SEND_MESSAGE /\ ~Has(before, last.data[2])) =>
        /\ resp.operation = FAILURE
        /\ resp.info = "Invalid recipient. Please enter a valid username."
        /\ accounts = before
        /\ ~saved
        /\ raised = ""
        /\ (last.version = VERSION) => connection_flag

\* a send to a missing recipient was refused while another account exists
C8_Witness ==
    /\ last.operation = SEND_MESSAGE
    /\ last.version = VERSION
    /\ ~Has(before, last.data[2])
    /\ Len(before) = 1
    /\ resp.operation = FAILURE
    /\ connection_flag

\* C9: ReadUnread(username, count) with count >= 0 on an existing account
\* answers the first min(count, length) unread messages in arrival order,
\* appends exactly those, in that order, to the end of the read sequence and
\* leaves the rest unread in their order; ReadAll answers the read sequence.
C9_ReadUnreadMoves ==
    /\ (last.operation = READ_UNREAD /\ Has(before, last.data[1]) /\ PyInt(last.data[2]) >= 0) =>
        LET old == Get(before, last.data[1])
            n   == Min(PyInt(last.data[2]), Len(old.unread_messages))
            popped == [i \in 1..n |-> old.unread_messages[i]]
        IN  /\ resp.operation = SUCCESS
            /\ resp.info = EncodeMessages(popped)
            /\ Has(accounts, last.data[1])
            /\ Get(accounts, last.data[1]).read_messages = old.read_messages \o popped
            /\ Get(accounts, last.data[1]).unread_messages =
                   [i \in 1..(Len(old.unread_messages) - n) |-> old.unread_messages[n + i]]
    /\ (last.operation = READ_ALL /\ Has(before, last.data[1])) =>
        /\ resp.operation = SUCCESS
        /\ resp.info = EncodeMessages(Get(before, last.data[1]).read_messages)

\* two messages from different senders were unread and ReadUnread(1) has
\* moved the first of them
C9_Witness ==
    /\ last.operation = READ_UNREAD
    /\ last.data[2] = "1"
    /\ Has(before, last.data[1])
    /\ Len(Get(before, last.data[1]).unread_messages) = 2
    /\ Get(before, last.data[1]).unread_messages[1] # Get(before, last.data[1]).unread_messages[2]
    /\ Get(before, last.data[1]).read_messages = <<>>
    /\ Get(accounts, last.data[1]).read_messages = <<Get(before, last.data[1]).unread_messages[1]>>
    /\ Get(accounts, last.data[1]).unread_messages = <<Get(before, last.data[1]).unread_messages[2]>>

\* C10: ReadUnread with count 0 answers the empty list and leaves the
\* directory (and the snapshot's content) as it was; ReadUnread with a count
\* greater than the number of unread messages answers all of them and leaves
\* the unread sequence empty.
C10_ReadUnreadZeroAndAll ==
    (last.operation = READ_UNREAD /\ Has(before, last.data[1])) =>
        LET old == Get(before, last.data[1])
            k   == PyInt(last.data[2])
        IN  /\ (k = 0) =>
                /\ resp.operation = SUCCESS
                /\ resp.info = ""
                /\ accounts = before
                /\ file = before
            /\ (k > Len(old.unread_messages)) =>
                /\ resp.operation = SUCCESS
                /\ resp.info = EncodeMessages(old.unread_messages)
                /\ Get(accounts, last.data[1]).unread_messages = <<>>
                /\ Get(accounts, last.data[1]).read_messages =
                       old.read_messages \o old.unread_messages

\* ReadUnread with count 0 was served for an account that holds both unread
\* and read messages
C10_Witness ==
    /\ last.operation = READ_UNREAD
    /\ last.data[2] = "0"
    /\ Has(before, last.data[1])
    /\ Get(before, last.data[1]).unread_messages # <<>>
    /\ Get(before, last.data[1]).read_messages # <<>>
    /\ resp.operation = SUCCESS
    /\ resp.info = ""

\* C11: ReadAll answers the whole read sequence and CountUnread the whole
\* unread sequence, each in stored order; neither of them, nor ListAccounts,
\* changes the directory or writes the snapshot.
C11_ReadsChangeNothing ==
    /\ (last.operation \in {READ_ALL, COUNT_UNREAD, LIST_ACCOUNTS}) =>
           (accounts = before /\ ~saved)
    /\ (last.operation = READ_ALL /\ Has(before, last.data[1])) =>
        LET msgs == Get(before, last.data[1]).read_messages
        IN  /\ resp.operation = SUCCESS
            /\ resp.info = Join("\n\t\n",
                   [i \in 1..Len(msgs) |-> msgs[i].from \o " " \o msgs[i].message])
    /\ (last.operation = COUNT_UNREAD /\ Has(before, last.data[1])) =>
        LET msgs == Get(before, last.data[1]).unread_messages
        IN  /\ resp.operation = SUCCESS
            /\ resp.info = Join("\n\t\n",
                   [i \in 1..Len(msgs) |-> msgs[i].from \o " " \o msgs[i].message])

\* CountUnread was served for an account that holds two unread messages
\* from different senders
C11_Witness ==
    /\ last.operation = COUNT_UNREAD
    /\ Has(before, last.data[1])
    /\ Len(Get(accounts, last.data[1]).unread_messages) = 2
    /\ Get(accounts, last.data[1]).unread_messages[1] # Get(accounts, last.data[1]).unread_messages[2]
    /\ resp.operation = SUCCESS
    /\ resp.info # ""

\* C12: ListAccounts(query) answers exactly the usernames whose lowercase
\* form contains the lowercase form of query, in directory order, for every
\* query, upper-case letters included; the empty query answers every
\* username.
C12_ListAccountsCaseInsensitive ==
    (last.operation = LIST_ACCOUNTS /\ last.version = VERSION) =>
        LET q == Lower(Chars(last.data[2]))
            Matches(acc) == Contains(q, Lower(Chars(acc)))
        IN  /\ resp.operation = SUCCESS
            /\ resp.info = Join("\n", SelectSeq(Keys(before), Matches))

\* C13: DeleteMessage(username, index) with 0 <= index < length of the read
\* sequence removes exactly the message at that position, keeps the other
\* read messages in their order, leaves the unread sequence and every other
\* account unchanged, and answers SUCCESS.
C13_DeleteMessageRemovesOne ==
    (/\ last.operation = DELETE_MESSAGE
     /\ Has(before, last.data[1])
     /\ PyInt(last.data[2]) >= 0
     /\ PyInt(last.data[2]) < Len(Get(before, last.data[1]).read_messages)) =>
        LET idx == PyInt(last.data[2])
            old == Get(before, last.data[1]).read_messages
        IN  /\ resp.operation = SUCCESS
            /\ Len(accounts) = Len(before)
            /\ \A i \in 1..Len(before) :
                /\ accounts[i].username = before[i].username
                /\ accounts[i].password = before[i].password
                /\ accounts[i].unread_messages = before[i].unread_messages
                /\ accounts[i].read_messages =
                     IF before[i].username = last.data[1]
                     THEN [j \in 1..(Len(old) - 1) |-> IF j <= idx THEN old[j] ELSE old[j + 1]]
                     ELSE before[i].read_messages

\* the first of two read messages from different senders was deleted
C13_Witness ==
    /\ last.operation = DELETE_MESSAGE
    /\ last.data[2] = "0"
    /\ Has(before, last.data[1])
    /\ Len(Get(before, last.data[1]).read_messages) = 2
    /\ Get(before, last.data[1]).read_messages[1] # Get(before, last.data[1]).read_messages[2]
    /\ Get(accounts, last.data[1]).read_messages = <<Get(before, last.data[1]).read_messages[2]>>
    /\ resp.operation = SUCCESS

\* C14: DeleteMessage(username, index) with index beyond the end of the read
\* sequence is answered with a FAILURE response that carries a reason, and
\* the read sequence is unchanged.
C14_DeleteMessageOutOfRange ==
    (/\ last.operation = DELETE_MESSAGE
     /\ last.version = VERSION
     /\ Has(before, last.data[1])
     /\ PyInt(last.data[2]) >= Len(Get(before, last.data[1]).read_messages)) =>
        /\ resp.operation = FAILURE
        /\ resp.info # ""
        /\ accounts = before

\* C15: DeleteAccount(u) for an existing account removes u from the
\* directory and leaves in every remaining account's read and unread
\* sequences exactly the messages whose sender is not u, in their order; no
\* sequence then holds a message from u.
C15_DeleteAccountCascades ==
    (last.operation = DELETE_ACCOUNT /\ Has(before, last.data[1])) =>
        LET u == last.data[1]
            Other(m) == m.from # u
            Stays(a) == a.username # u
            rest == SelectSeq(before, Stays)
        IN  /\ resp.operation = SUCCESS
            /\ ~Has(accounts, u)
            /\ Len(accounts) = Len(rest)
            /\ \A i \in 1..Len(rest) :
                /\ accounts[i].username = rest[i].username
                /\ accounts[i].password = rest[i].password
                /\ accounts[i].read_messages = SelectSeq(rest[i].read_messages, Other)
                /\ accounts[i].unread_messages = SelectSeq(rest[i].unread_messages, Other)
                /\ \A j \in 1..Len(accounts[i].read_messages) :
                     accounts[i].read_messages[j].from # u
                /\ \A j \in 1..Len(accounts[i].unread_messages) :
                     accounts[i].unread_messages[j].from # u

\* an account was deleted whose message stood before another sender's
\* message in the remaining account's unread sequence
C15_Witness ==
    /\ last.operation = DELETE_ACCOUNT
    /\ Has(before, last.data[1])
    /\ Len(before) = 2
    /\ Len(accounts) = 1
    /\ Len(Get(before, accounts[1].username).unread_messages) = 2
    /\ Get(before, accounts[1].username).unread_messages[1].from = last.data[1]
    /\ Get(before, accounts[1].username).unread_messages[2].from # last.data[1]
    /\ accounts[1].unread_messages = <<Get(before, accounts[1].username).unread_messages[2]>>

\* C16: every response the handler writes has operation SUCCESS or FAILURE
\* and carries the server's version constant, whatever operation the request
\* named.
C16_ResponseOutcomeAndVersion ==
    (resp # NoResponse) =>
        /\ resp.operation \in {SUCCESS, FAILURE}
        /\ resp.version = VERSION

\* a FAILURE and a data-carrying SUCCESS: the request was a refused send, or
\* a ListAccounts that found an account
C16_Witness ==
    \/ (last.operation = SEND_MESSAGE /\ resp.operation = FAILURE /\ resp.version = VERSION)
    \/ (last.operation = LIST_ACCOUNTS /\ resp.operation = SUCCESS /\ resp.info # "")

\* C17: every FAILURE response carries a non-empty reason in its payload,
\* the failure of Login for an incorrect credential included.
C17_FailureHasReason ==
    (resp.operation = FAILURE) => resp.info # ""

\* C18: a request whose version differs from the server's is not
\* interpreted: the directory and the snapshot are unchanged and no
\* operation result is sent.
C18_MismatchNotDispatched ==
    (last # NoRequest /\ last.version # VERSION) =>
        /\ accounts = before
        /\ ~saved
        /\ resp = NoResponse

\* C19: after the handler has received a request with a mismatched version
\* it processes no further request on that connection: the only step that
\* follows is the start of a handler for a new connection, which leaves the
\* directory alone.
C19_MismatchIsTerminal ==
    [][ (last # NoRequest /\ last.version # VERSION) =>
            (last' = NoRequest /\ accounts' = accounts /\ file' = file) ]_vars

\* a Login with a mismatched version has ended the handler loop
C19_Witness ==
    /\ last.operation = LOGIN
    /\ last.version # VERSION
    /\ ~connection_flag
    /\ raised = ""

\* C20: for every request with a matching version that the handler finishes
\* processing, whatever its two-character operation code, the handler has
\* written a response before it reads the next request.
C20_OneResponsePerRequest ==
    (last # NoRequest /\ last.version = VERSION /\ raised = "") =>
        resp # NoResponse

\* C21: a request that names an unknown username (ReadUnread, ReadAll,
\* CountUnread, DeleteMessage, DeleteAccount), an invalid recipient
\* (SendMessage) or an index beyond the end (DeleteMessage) is answered with
\* a FAILURE response that carries a message, and the handler loop goes on
\* to the next request.
C21_StoreFailureAnswered ==
    LET op == last.operation
        unknown_user ==
            /\ op \in {READ_UNREAD, READ_ALL, COUNT_UNREAD, DELETE_MESSAGE, DELETE_ACCOUNT}
            /\ ~Has(before, last.data[1])
        invalid_recipient ==
            /\ op = SEND_MESSAGE
            /\ ~Has(before, last.data[2])
        out_of_range ==
            /\ op = DELETE_MESSAGE
            /\ Has(before, last.data[1])
            /\ PyInt(last.data[2]) >= Len(Get(before, last.data[1]).read_messages)
    IN  (last.version = VERSION /\ (unknown_user \/ invalid_recipient \/ out_of_range)) =>
            /\ resp.operation = FAILURE
            /\ resp.info # ""
            /\ connection_flag

\* C26: in a sequential run the snapshot equals the directory after every
\* well-formed request the handler has processed, whether the operation
\* mutated, only read, or failed.
C26_SnapshotEqualsDirectory ==
    (last # NoRequest /\ last.version = VERSION) => file = accounts

\* C27: whenever a thread writes the snapshot, no other thread's operation
\* is partly applied to the directory (a ReadUnread that has extended the
\* read sequence and not yet cut the unread sequence).
C27_SnapshotOfWholeOperations ==
    [][ (file' # file) =>
            \A t \in Threads :
                ~(pc[t] = "store" /\ frame[t].unread_messages # <<>>) ]_vars

\* C28: the wire server returns what the gRPC service (and the JSON server)
\* returns for the same call on the same directory; for ListAccounts, the
\* same usernames in the same order.
C28_SameAsChatService ==
    (last.operation = LIST_ACCOUNTS /\ last.version = VERSION) =>
        resp.info = Join("\n", ChatServiceListAccounts(before, last.data[2]))

----------------------------------------------------------------------------
(* SpecCodec: serialize and deserialize on their own.  An envelope is      *)
(* serialized and the result deserialized, or a byte string that recv      *)
(* delivered is deserialized.                                              *)

\* package_send line 66, Client.send_recv line 40
Serialize ==
    \E e \in Envelopes :
        /\ codec_step \in {"idle", "round_trip", "decoded", "raised"}
        /\ envelope' = e
        /\ encode_data' = serialize(e)
        /\ decod_data' = NoEnvelope
        /\ codec_step' = "serialized"
        /\ UNCHANGED <<hvars, pagevars, wirevars, listvars, cascadevars>>

\* line 87: client.recv(msg_len) delivers the bytes a peer put on the wire
RecvBytes ==
    \E b \in ByteStrings :
        /\ codec_step \in {"idle", "round_trip", "decoded", "raised"}
        /\ envelope' = NoEnvelope
        /\ encode_data' = b
        /\ decod_data' = NoEnvelope
        /\ codec_step' = "received"
        /\ UNCHANGED <<hvars, pagevars, wirevars, listvars, cascadevars>>

\* line 87: deserialize(...); data[0] raises IndexError when data is empty
Deserialize ==
    /\ codec_step \in {"serialized", "received"}
    /\ IF encode_data = <<>>
       THEN decod_data' = NoEnvelope /\ codec_step' = "raised"
       ELSE /\ decod_data' = deserialize(encode_data)
            /\ codec_step' = IF codec_step = "serialized" THEN "round_trip" ELSE "decoded"
    /\ UNCHANGED <<hvars, pagevars, wirevars, listvars, cascadevars, envelope, encode_data>>

InitCodec ==
    /\ accounts = <<>>
    /\ file = <<>>
    /\ before = <<>>
    /\ InitHandler
    /\ InitThreads
    /\ IdleCodec
    /\ IdleWire
    /\ IdleList
    /\ IdleCascade
    /\ IdlePage

NextCodec ==
    \/ Serialize
    \/ RecvBytes
    \/ Deserialize

SpecCodec == InitCodec /\ [][NextCodec]_vars

\* C22: deserialize(serialize(e)) has the version, operation and info of e,
\* for every envelope e with a one-character version and a two-character
\* operation code.
C22_CodecRoundTrip ==
    (codec_step = "round_trip") =>
        /\ decod_data.version = envelope.version
        /\ decod_data.operation = envelope.operation
        /\ decod_data.info = envelope.info

\* an envelope with a non-empty info has made the round trip
C22_Witness ==
    /\ codec_step = "round_trip"
    /\ Len(envelope.info) = MaxInfo
    /\ envelope.operation = <<"1", "0">>
    /\ decod_data = envelope

\* C23: deserialize of a byte string shorter than 3 bytes raises an error;
\* it does not return an envelope.
C23_ShortEnvelopeRejected ==
    (codec_step \in {"decoded", "raised"} /\ Len(encode_data) < 3) =>
        codec_step = "raised"

----------------------------------------------------------------------------
(* SpecWire: the read path of handle_client on the byte stream of one      *)
(* connection.  The peer writes frames, or a header of spaces, or closes;  *)
(* a recv(n) on a stream that holds bytes returns at least one and at most *)
(* n of them, on an empty stream of a closed connection it returns b''.    *)

\* Client.send_recv lines 40-47: the header, then the serialized envelope
SendFrame ==
    \E e \in WireEnvelopes :
        /\ ~peer_closed
        /\ Len(written) < MaxFrames
        /\ written' = Append(written, e)
        /\ stream' = stream \o Header(Len(serialize(e))) \o serialize(e)
        /\ UNCHANGED <<hvars, pagevars, codecvars, listvars, cascadevars, peer_closed, recovered, wpc, msg_len>>

\* a peer that sends a header of 64 spaces and closes
SendBlankHeader ==
    /\ ~peer_closed
    /\ Len(written) < MaxFrames
    /\ stream = <<>>
    /\ stream' = Spaces(HEADER)
    /\ peer_closed' = TRUE
    /\ UNCHANGED <<hvars, pagevars, codecvars, listvars, cascadevars, written, recovered, wpc, msg_len>>

\* the peer closes the connection
Close ==
    /\ ~peer_closed
    /\ peer_closed' = TRUE
    /\ UNCHANGED <<hvars, pagevars, codecvars, listvars, cascadevars, stream, written, recovered, wpc, msg_len>>

\* lines 83-86: msg_len = client.recv(self.HEADER); break when it is empty;
\* int(msg_len)
RecvHeader ==
    /\ wpc = "header"
    /\ IF stream = <<>>
       THEN /\ peer_closed
            /\ msg_len' = <<>>
            /\ wpc' = "closed"
            /\ UNCHANGED stream
       ELSE \E k \in 1..Min(HEADER, Len(stream)) :
                /\ msg_len' = SubSeq(stream, 1, k)
                /\ stream' = SubSeq(stream, k + 1, Len(stream))
                /\ wpc' = IF ParseInt(SubSeq(stream, 1, k)) < 0 THEN "ValueError" ELSE "body"
    /\ UNCHANGED <<hvars, pagevars, codecvars, listvars, cascadevars, peer_closed, written, recovered>>

\* lines 87-93: deserialize(client.recv(msg_len)), then the version check
\* that ends the loop
RecvBody ==
    /\ wpc = "body"
    /\ IF ParseInt(msg_len) = 0 \/ stream = <<>>
       THEN /\ (ParseInt(msg_len) = 0 \/ peer_closed)
            /\ wpc' = "IndexError"
            /\ UNCHANGED <<stream, recovered>>
       ELSE \E k \in 1..Min(ParseInt(msg_len), Len(stream)) :
                LET deserialized_data == deserialize(SubSeq(stream, 1, k))
                IN  /\ stream' = SubSeq(stream, k + 1, Len(stream))
                    /\ recovered' = Append(recovered, deserialized_data)
                    /\ wpc' = IF deserialized_data.version = <<VERSION>>
                              THEN "header" ELSE "mismatch"
    /\ UNCHANGED <<hvars, pagevars, codecvars, listvars, cascadevars, peer_closed, written, msg_len>>

InitWire ==
    /\ accounts = <<>>
    /\ file = <<>>
    /\ before = <<>>
    /\ InitHandler
    /\ InitThreads
    /\ IdleCodec
    /\ IdleWire
    /\ IdleList
    /\ IdleCascade
    /\ IdlePage

NextWire ==
    \/ SendFrame
    \/ SendBlankHeader
    \/ Close
    \/ RecvHeader
    \/ RecvBody

SpecWire == InitWire /\ [][NextWire]_vars

\* C24: whatever number of bytes each recv returns, the envelopes the
\* handler has deserialized are the first envelopes the peer framed, in
\* order, each complete.
C24_FramesRecovered ==
    /\ Len(recovered) <= Len(written)
    /\ \A i \in 1..Len(recovered) : i <= Len(written) => recovered[i] = written[i]

\* C25: when the handler has read a header that is empty or consists of
\* spaces only, its loop has ended as for a closed connection, without an
\* exception and without deserializing a message.
C25_BlankHeaderIsPeerClosed ==
    (wpc \in {"body", "closed", "ValueError"} /\ Strip(msg_len) = <<>>) =>
        wpc = "closed"

----------------------------------------------------------------------------
(* SpecList: a list of messages goes from the server to the client in the  *)
(* 'info' of a READ_UNREAD, READ_ALL or COUNT_UNREAD response.             *)

\* lines 146-148, 155-157, 162-164: the server builds the 'info'
EncodeList ==
    /\ list_step = "listed"
    /\ list_info' = JoinMessages(msg_list)
    /\ list_step' = "encoded"
    /\ UNCHANGED <<hvars, pagevars, codecvars, wirevars, cascadevars, msg_list, client_list>>

\* client.py lines 98-105: the client builds its list
DecodeList ==
    /\ list_step = "encoded"
    /\ client_list' = ClientDecode(list_info).list
    /\ list_step' = IF ClientDecode(list_info).ok THEN "decoded" ELSE "ValueError"
    /\ UNCHANGED <<hvars, pagevars, codecvars, wirevars, cascadevars, msg_list, list_info>>

InitList ==
    /\ accounts = <<>>
    /\ file = <<>>
    /\ before = <<>>
    /\ InitHandler
    /\ InitThreads
    /\ IdleCodec
    /\ IdleWire
    /\ IdleCascade
    /\ IdlePage
    /\ msg_list \in SeqsUpTo(ListMessages, MaxList)
    /\ list_info = <<>>
    /\ client_list = <<>>
    /\ list_step = "listed"

NextList ==
    \/ EncodeList
    \/ DecodeList

SpecList == InitList /\ [][NextList]_vars

\* C29: the list the client decodes from a message-list response is the
\* list of (sender, body) pairs the server encoded, in the same order, for
\* senders without a space and senders and bodies without the record
\* delimiter; the empty list included.
C29_MessageListRoundTrip ==
    (list_step \in {"decoded", "ValueError"}) =>
        /\ list_step = "decoded"
        /\ client_list = msg_list

----------------------------------------------------------------------------
(* SpecCascade: DELETE_ACCOUNT on one list of messages, by the loop of the *)
(* wire (and JSON) server and by the filter of the gRPC service.           *)

\* server.py lines 194-203
WireDeleteLoop ==
    /\ cascade_step = "start"
    /\ wire_result' = DeleteLoop(user_messages, deleted_user)
    /\ cascade_step' = "wire"
    /\ UNCHANGED <<hvars, pagevars, codecvars, wirevars, listvars,
                   user_messages, deleted_user, grpc_result>>

\* grpc_protocol/server.py lines 189-190
GrpcFilter ==
    /\ cascade_step = "wire"
    /\ grpc_result' = ChatServiceFilter(user_messages, deleted_user)
    /\ cascade_step' = "both"
    /\ UNCHANGED <<hvars, pagevars, codecvars, wirevars, listvars,
                   user_messages, deleted_user, wire_result>>

InitCascade ==
    /\ accounts = <<>>
    /\ file = <<>>
    /\ before = <<>>
    /\ InitHandler
    /\ InitThreads
    /\ IdleCodec
    /\ IdleWire
    /\ IdleList
    /\ IdlePage
    /\ user_messages \in SeqsUpTo(CascadeMessages, MaxSeq)
    /\ deleted_user \in Users
    /\ wire_result = <<>>
    /\ grpc_result = <<>>
    /\ cascade_step = "start"

NextCascade ==
    \/ WireDeleteLoop
    \/ GrpcFilter

SpecCascade == InitCascade /\ [][NextCascade]_vars

\* the messages of a list, in order, whose sender is not u
RECURSIVE Others(_, _)
Others(msgs, u) ==
    IF msgs = <<>> THEN <<>>
    ELSE IF Head(msgs).from = u THEN Others(Tail(msgs), u)
    ELSE <<Head(msgs)>> \o Others(Tail(msgs), u)

\* C30: the loop of the wire server leaves exactly the messages whose
\* sender differs from the deleted username, in their original order, which
\* is also what the filter of the gRPC service returns.
C30_CascadeIsFilter ==
    /\ (cascade_step \in {"wire", "both"}) =>
           wire_result = Others(user_messages, deleted_user)
    /\ (cascade_step = "both") => wire_result = grpc_result

\* the deleted user's messages are the first two (adjacent) and the last of
\* four; the one between them is kept
C30_Witness ==
    /\ cascade_step = "both"
    /\ Len(user_messages) = 4
    /\ user_messages[1].from = deleted_user
    /\ user_messages[2].from = deleted_user
    /\ user_messages[3].from # deleted_user
    /\ user_messages[4].from = deleted_user
    /\ wire_result = <<user_messages[3]>>

----------------------------------------------------------------------------
(* Further claims about one handler iteration, checked under Spec.         *)

\* C31: ReadUnread, for every account and every count (negative counts
\* included), leaves the concatenation read ++ unread of every account as it
\* was: no message is created, dropped, duplicated or reordered.
C31_ReadUnreadConserves ==
    (last.operation = READ_UNREAD /\ raised = "") =>
        /\ Len(accounts) = Len(before)
        /\ \A i \in 1..Len(before) :
               /\ accounts[i].username = before[i].username
               /\ accounts[i].read_messages \o accounts[i].unread_messages
                      = before[i].read_messages \o before[i].unread_messages

\* ReadUnread with count -1 has moved the first of two unread messages from
\* different senders
C31_Witness ==
    /\ last.operation = READ_UNREAD
    /\ last.data[2] = "-1"
    /\ Has(before, last.data[1])
    /\ Len(Get(before, last.data[1]).unread_messages) = 2
    /\ Get(before, last.data[1]).unread_messages[1] # Get(before, last.data[1]).unread_messages[2]
    /\ Len(Get(accounts, last.data[1]).read_messages) = 1
    /\ Len(Get(accounts, last.data[1]).unread_messages) = 1

\* C34: DeleteMessage with a negative index removes no message: the read
\* sequence is as it was and the request is not answered SUCCESS.
C34_NegativeIndexRemovesNothing ==
    ( /\ last.operation = DELETE_MESSAGE
      /\ last.version = VERSION
      /\ Has(before, last.data[1])
      /\ PyInt(last.data[2]) < 0 ) =>
        /\ Has(accounts, last.data[1])
        /\ Get(accounts, last.data[1]).read_messages = Get(before, last.data[1]).read_messages
        /\ resp.operation # SUCCESS

\* C35: DeleteAccount for a username that is not in the directory leaves
\* the directory as it was.
C35_DeleteUnknownAccountChangesNothing ==
    ( /\ last.operation = DELETE_ACCOUNT
      /\ last.version = VERSION
      /\ ~Has(before, last.data[1]) ) =>
        accounts = before

\* C36: Login, ReadUnread and DeleteMessage for username u leave every
\* other account as it was, and SendMessage changes nothing but the unread
\* sequence of the recipient.
C36_AccountIsolation ==
    /\ (last.operation \in {LOGIN, READ_UNREAD, DELETE_MESSAGE}) =>
        /\ \A i \in 1..Len(before) :
               before[i].username # last.data[1] =>
                   (i <= Len(accounts) /\ accounts[i] = before[i])
        /\ \A i \in 1..Len(accounts) :
               accounts[i].username # last.data[1] =>
                   (i <= Len(before) /\ accounts[i] = before[i])
    /\ (last.operation = SEND_MESSAGE) =>
        /\ Len(accounts) = Len(before)
        /\ \A i \in 1..Len(before) :
               /\ accounts[i].username = before[i].username
               /\ accounts[i].password = before[i].password
               /\ accounts[i].read_messages = before[i].read_messages
               /\ (before[i].username # last.data[2] =>
                       accounts[i].unread_messages = before[i].unread_messages)

\* a message was sent to one of two accounts while the other one held a
\* message
C36_Witness ==
    /\ last.operation = SEND_MESSAGE
    /\ resp.operation = SUCCESS
    /\ Len(before) = 2
    /\ \E i \in 1..2 :
           /\ before[i].username # last.data[2]
           /\ Len(before[i].unread_messages) + Len(before[i].read_messages) = 1
           /\ accounts[i] = before[i]
    /\ accounts # before

C38_LoginBeforeAccess ==
    [][ (last = NoRequest) =>
            ~( /\ last'.operation \in {READ_UNREAD, READ_ALL, COUNT_UNREAD,
                                       DELETE_MESSAGE, DELETE_ACCOUNT}
               /\ last'.version = VERSION
               /\ resp'.operation = SUCCESS ) ]_vars

----------------------------------------------------------------------------
(* Further claims about concurrent connections, checked under SpecConc.    *)

\* C32: when the only two requests served are two ReadUnread calls on the
\* same account, from two connections, and both are complete, no message is
\* delivered twice: the two calls together return no more messages than the
\* account had unread, and the account's read sequence has grown by no more
\* than that.
C32_NoDoubleDelivery ==
    \A s \in Threads, r \in Threads :
        ( /\ s # r
          /\ Served = 2
          /\ nreq[s] = 1 /\ pc[s] = "recv"
          /\ nreq[r] = 1 /\ pc[r] = "recv"
          /\ frame[s].request.operation = READ_UNREAD
          /\ frame[r].request.operation = READ_UNREAD
          /\ frame[s].request.data[1] = frame[r].request.data[1]
          /\ Has(before, frame[s].request.data[1]) ) =>
        LET u   == frame[s].request.data[1]
            old == Get(before, u)
            new == Get(accounts, u)
        IN  /\ Len(frame[s].unread_messages) + Len(frame[r].unread_messages)
                   <= Len(old.unread_messages)
            /\ Len(new.read_messages)
                   <= Len(old.read_messages) + Len(old.unread_messages)
            /\ \A m \in AllMessages :
                   Cardinality({j \in 1..Len(new.read_messages) : new.read_messages[j] = m})
                       <= Cardinality({j \in 1..Len(old.read_messages \o old.unread_messages) :
                                          (old.read_messages \o old.unread_messages)[j] = m})

----------------------------------------------------------------------------
(* Claims about malformed payloads, checked under SpecParse.               *)

\* C39: a handler iteration whose request has a malformed payload (too few
\* newline-separated fields for LOGIN, SEND_MESSAGE, READ_UNREAD,
\* LIST_ACCOUNTS or DELETE_MESSAGE, or a count or index that is not a
\* decimal number) changes neither the directory nor the snapshot.
C39_MalformedChangesNothing ==
    [][ ( \/ /\ last'.operation \in {LOGIN, READ_UNREAD, LIST_ACCOUNTS, DELETE_MESSAGE}
             /\ Len(last'.data) < 2
          \/ /\ last'.operation = SEND_MESSAGE
             /\ Len(last'.data) < 3
          \/ /\ last'.operation \in {READ_UNREAD, DELETE_MESSAGE}
             /\ Len(last'.data) = 2
             /\ last'.data[2] \notin Counts ) =>
            /\ accounts' = accounts
            /\ file' = file ]_vars

\* a DELETE_MESSAGE whose index is not a number, for an account that holds a
\* read message, has raised ValueError
C39_Witness ==
    /\ last.operation = DELETE_MESSAGE
    /\ Len(last.data) = 2
    /\ last.data[2] = "x"
    /\ Has(accounts, last.data[1])
    /\ Len(Get(accounts, last.data[1]).read_messages) = 1
    /\ raised = "ValueError"
    /\ resp = NoResponse
    /\ accounts = before
    /\ file = accounts

----------------------------------------------------------------------------
(* Claims about deleting a listed message, checked under SpecDelete.       *)

\* C33: when a client has called ReadAll(u) and then DeleteMessage(u, k),
\* the message removed is the one ReadAll returned at position k, whatever
\* DeleteMessage, DeleteAccount and ReadUnread requests of other connections
\* the server handled between the two (stated for the calls that removed a
\* message at all).
C33_DeletesListedMessage ==
    (page_step = "deleted" /\ page_removed # <<>>) =>
        page_removed = <<page_messages[page_idx + 1]>>

====
